---- MODULE Spec2Model ----
(***************************************************************************)
(* Model of file_manager/file_uploader_cli.py: the cli entry point parses  *)
(* the two comma-separated extension options, constructs a FileUploader    *)
(* and runs upload_files over a directory tree.  Strings are sequences of  *)
(* one-character strings so that splitext, lower, split and join are       *)
(* computed character by character as the library computes them.  os.walk  *)
(* is a generator: the tree is read while it is walked, so a file's name   *)
(* is drawn when the walk yields it.                                       *)
(***************************************************************************)
EXTENDS Integers, Sequences, FiniteSets

\* ---- bounds of the explored inputs ----
MaxNameLen == 3
MaxFiles == 2
MaxConfigLen == 1

\* ---- alphabets of the explored inputs ----
NameChars == {"B", "."}
ConfigChars == {"b", "B", ","}
RootDir == <<"r">>
SubDir == <<"r", "/", "s">>
S3Bucket == "s3_bucket"
GcsBucket == "gcs_bucket"
Causes == {"AccessDenied", "Timeout"}

VARIABLES
    cfg_s3_extensions,    \* raw value of option [s3] extensions
    cfg_gcs_extensions,   \* raw value of option [gcs] extensions
    rootExists,           \* whether the directory given to the cli exists
    remaining,            \* files below the directory the walk has yet to yield
    s3_bucket_name,       \* self.s3_bucket_name
    gcs_bucket_name,      \* self.gcs_bucket_name
    s3_file_extensions,   \* self.s3_file_extensions
    gcs_file_extensions,  \* self.gcs_file_extensions
    file_extensions,      \* self.file_extensions
    pc,                   \* "start", "walk", "uploading", "done"
    subdir,               \* loop variable subdir (empty before the first entry)
    file,                 \* loop variable file (empty before the first file)
    file_dir,             \* the subdir the walk yielded file in
    file_extension,       \* local file_extension of the current iteration
    inflight,             \* upload calls that have not returned yet
    calls,                \* upload calls made in the iteration of file
    log,                  \* lines handed to the logger in the iteration of file
    fault,                \* what the upload of file raised, "none" if nothing
    failedBefore          \* an upload of an earlier file of this run raised

vars == <<cfg_s3_extensions, cfg_gcs_extensions, rootExists, remaining,
          s3_bucket_name, gcs_bucket_name, s3_file_extensions,
          gcs_file_extensions, file_extensions, pc, subdir, file,
          file_dir, file_extension, inflight, calls, log, fault, failedBefore>>

\* ---- strings ----
Range(s) == {s[i] : i \in 1..Len(s)}

Strs(alphabet, n) == UNION {[1..m -> alphabet] : m \in 0..n}

\* str.lower on one character
LowerChar(c) == IF c = "B" THEN "b" ELSE c

\* str.lower
Lower(s) == [i \in 1..Len(s) |-> LowerChar(s[i])]

\* str.rfind('.') with 1-based positions, 0 when there is none
RFindDot(p) ==
    IF \E i \in 1..Len(p) : p[i] = "."
    THEN CHOOSE i \in 1..Len(p) : p[i] = "." /\ \A j \in (i+1)..Len(p) : p[j] # "."
    ELSE 0

\* the scan of genericpath._splitext over the characters before the last dot:
\* the first character that is not a dot makes the suffix an extension
RECURSIVE SplitextScan(_, _, _)
SplitextScan(p, filenameIndex, dotIndex) ==
    IF filenameIndex >= dotIndex
    THEN <<p, <<>>>>
    ELSE IF p[filenameIndex] # "."
         THEN <<SubSeq(p, 1, dotIndex - 1), SubSeq(p, dotIndex, Len(p))>>
         ELSE SplitextScan(p, filenameIndex + 1, dotIndex)

\* a splitext that takes everything from the last dot on, leading dots included
SplitextNoLeadingDotRule(p) ==
    IF RFindDot(p) = 0
    THEN <<p, <<>>>>
    ELSE <<SubSeq(p, 1, RFindDot(p) - 1), SubSeq(p, RFindDot(p), Len(p))>>

\* os.path.splitext of a name without a directory separator
splitext(p) ==
    IF RFindDot(p) = 0 THEN <<p, <<>>>> ELSE SplitextScan(p, 1, RFindDot(p))

\* s[1:]
DropFirst(s) == IF Len(s) = 0 THEN <<>> ELSE Tail(s)

\* os.path.splitext(file)[1][1:].lower()
FileExtensionOf(name) == Lower(DropFirst(splitext(name)[2]))

\* a join that forgets the directory
JoinDropsDir(a, p) == p

\* os.path.join(subdir, file) for a relative file name
os_path_join(a, p) ==
    IF Len(a) > 0 /\ a[Len(a)] = "/"
    THEN a \o p
    ELSE a \o <<"/">> \o p

\* str.split(','): the pieces between the commas, empty pieces kept
RECURSIVE SplitComma(_, _, _)
SplitComma(s, i, piece) ==
    IF i > Len(s)
    THEN <<piece>>
    ELSE IF s[i] = ","
         THEN <<piece>> \o SplitComma(s, i + 1, <<>>)
         ELSE SplitComma(s, i + 1, Append(piece, s[i]))

split(s) == SplitComma(s, 1, <<>>)

\* ---- the directory tree ----
FileNames == Strs(NameChars, MaxNameLen) \ {<<>>, <<".">>, <<".", ".">>}

\* os.walk(directory) has another file to yield; errors of the scan are
\* ignored (onerror is None), so a directory that does not exist yields
\* nothing and raises nothing
WalkHasNext == rootExists /\ remaining > 0

\* the directory os.walk yields after subdir, top-down: the root, then its
\* sub-directory
NextDirOf(d) == IF d = <<>> THEN RootDir ELSE SubDir

\* ---- routing ----
\* a routing that sends every configured extension to S3
RouteAlwaysS3(ext) ==
    IF ext \notin Range(file_extensions) THEN "none" ELSE "s3"

\* a routing that tries the GCS list first
RouteGcsFirst(ext) ==
    IF ext \notin Range(file_extensions) THEN "none"
    ELSE IF ext \in Range(gcs_file_extensions) THEN "gcs"
    ELSE IF ext \in Range(s3_file_extensions) THEN "s3"
    ELSE "none"

\* the if / if / elif of the loop body
Route(ext) ==
    IF ext \notin Range(file_extensions) THEN "none"
    ELSE IF ext \in Range(s3_file_extensions) THEN "s3"
    ELSE IF ext \in Range(gcs_file_extensions) THEN "gcs"
    ELSE "none"

\* ---- log lines ----
S3Name == "AWS S3"
GcsName == "Google Cloud Storage"

SuccessLine(backend, name) ==
    IF backend = "s3"
    THEN [level |-> "INFO", file |-> name, service |-> S3Name,
          bucket |-> s3_bucket_name, cause |-> "none"]
    ELSE [level |-> "INFO", file |-> name, service |-> GcsName,
          bucket |-> gcs_bucket_name, cause |-> "none"]

ErrorLine(backend, name, e) ==
    IF backend = "s3"
    THEN [level |-> "ERROR", file |-> name, service |-> S3Name,
          bucket |-> s3_bucket_name, cause |-> e]
    ELSE [level |-> "ERROR", file |-> name, service |-> GcsName,
          bucket |-> s3_bucket_name, cause |-> e]

\* ---- initial state ----
Init ==
    /\ cfg_s3_extensions \in Strs(ConfigChars, MaxConfigLen)
    /\ cfg_gcs_extensions \in Strs(ConfigChars, MaxConfigLen)
    /\ rootExists \in BOOLEAN
    /\ remaining \in 0..MaxFiles
    /\ (~rootExists => remaining = 0)
    /\ s3_bucket_name = S3Bucket
    /\ gcs_bucket_name = GcsBucket
    /\ s3_file_extensions = <<>>
    /\ gcs_file_extensions = <<>>
    /\ file_extensions = <<>>
    /\ pc = "start"
    /\ subdir = <<>>
    /\ file = <<>>
    /\ file_dir = <<>>
    /\ file_extension = <<>>
    /\ inflight = <<>>
    /\ calls = <<>>
    /\ log = <<>>
    /\ fault = "none"
    /\ failedBefore = FALSE

\* ---- actions ----
\* cli: read the options, construct the FileUploader, enter upload_files
cli ==
    /\ pc = "start"
    /\ s3_file_extensions' = split(cfg_s3_extensions)
    /\ gcs_file_extensions' = split(cfg_gcs_extensions)
    /\ file_extensions' = split(cfg_s3_extensions) \o split(cfg_gcs_extensions)
    /\ pc' = "walk"
    /\ UNCHANGED <<cfg_s3_extensions, cfg_gcs_extensions, rootExists, remaining,
                   s3_bucket_name, gcs_bucket_name, subdir, file, file_dir,
                   file_extension, inflight, calls, log, fault, failedBefore>>

\* one iteration of the outer loop: os.walk yields the next directory
NextDir ==
    /\ pc = "walk"
    /\ rootExists
    /\ subdir # SubDir
    /\ subdir' = NextDirOf(subdir)
    /\ UNCHANGED <<cfg_s3_extensions, cfg_gcs_extensions, rootExists, remaining,
                   s3_bucket_name, gcs_bucket_name, s3_file_extensions,
                   gcs_file_extensions, file_extensions, pc, file, file_dir,
                   file_extension, inflight, calls, log, fault, failedBefore>>

\* self.upload_to_s3(file_path, file) / self.upload_to_gcs(file_path, file)
Call(backend, d, f) ==
    [backend |-> backend,
     bucket |-> IF backend = "s3" THEN s3_bucket_name ELSE gcs_bucket_name,
     file_path |-> os_path_join(d, f),
     file_name |-> f]

\* a loop body that starts the upload and moves on without waiting for it
NextFileNoWait ==
    /\ pc = "walk"
    /\ WalkHasNext
    /\ subdir # <<>>
    /\ \E f \in FileNames :
          /\ file' = f
          /\ file_dir' = subdir
          /\ file_extension' = FileExtensionOf(f)
          /\ pc' = "walk"
          /\ IF Route(FileExtensionOf(f)) = "none"
             THEN calls' = <<>> /\ inflight' = inflight
             ELSE /\ calls' = <<Call(Route(FileExtensionOf(f)), subdir, f)>>
                  /\ inflight' = Append(inflight, Call(Route(FileExtensionOf(f)), subdir, f))
    /\ remaining' = remaining - 1
    /\ log' = <<>>
    /\ fault' = "none"
    /\ failedBefore' = (failedBefore \/ fault # "none")
    /\ UNCHANGED <<cfg_s3_extensions, cfg_gcs_extensions, rootExists,
                   s3_bucket_name, gcs_bucket_name, s3_file_extensions,
                   gcs_file_extensions, file_extensions, subdir>>

\* one iteration of the inner loop up to the upload call: the walk yields
\* a file, its extension is computed, and the file is skipped or
\* upload_to_s3 / upload_to_gcs is entered
NextFile ==
    /\ pc = "walk"
    /\ WalkHasNext
    /\ subdir # <<>>
    /\ \E f \in FileNames :
          /\ file' = f
          /\ file_dir' = subdir
          /\ file_extension' = FileExtensionOf(f)
          /\ IF Route(FileExtensionOf(f)) = "none"
             THEN /\ pc' = "walk"
                  /\ calls' = <<>>
                  /\ inflight' = inflight
             ELSE /\ pc' = "uploading"
                  /\ calls' = <<Call(Route(FileExtensionOf(f)), subdir, f)>>
                  /\ inflight' = Append(inflight, Call(Route(FileExtensionOf(f)), subdir, f))
    /\ remaining' = remaining - 1
    /\ log' = <<>>
    /\ fault' = "none"
    /\ failedBefore' = (failedBefore \/ fault # "none")
    /\ UNCHANGED <<cfg_s3_extensions, cfg_gcs_extensions, rootExists,
                   s3_bucket_name, gcs_bucket_name, s3_file_extensions,
                   gcs_file_extensions, file_extensions, subdir>>

\* the upload returns: the success line is logged and the loop goes on
UploadReturn ==
    /\ pc = "uploading"
    /\ inflight # <<>>
    /\ log' = Append(log, SuccessLine(inflight[1].backend, inflight[1].file_name))
    /\ inflight' = Tail(inflight)
    /\ pc' = "walk"
    /\ UNCHANGED <<cfg_s3_extensions, cfg_gcs_extensions, rootExists, remaining,
                   s3_bucket_name, gcs_bucket_name, s3_file_extensions,
                   gcs_file_extensions, file_extensions, subdir, file, file_dir,
                   file_extension, calls, fault, failedBefore>>

\* an upload whose exception leaves upload_files
UploadRaiseAborts ==
    /\ pc = "uploading"
    /\ inflight # <<>>
    /\ \E e \in Causes : fault' = e
    /\ inflight' = Tail(inflight)
    /\ pc' = "done"
    /\ UNCHANGED <<cfg_s3_extensions, cfg_gcs_extensions, rootExists, remaining,
                   s3_bucket_name, gcs_bucket_name, s3_file_extensions,
                   gcs_file_extensions, file_extensions, subdir, file, file_dir,
                   file_extension, calls, log, failedBefore>>

\* the upload raises: the except clause logs the error line and the loop goes on
UploadRaise ==
    /\ pc = "uploading"
    /\ inflight # <<>>
    /\ \E e \in Causes :
          /\ fault' = e
          /\ log' = Append(log, ErrorLine(inflight[1].backend, inflight[1].file_name, e))
    /\ inflight' = Tail(inflight)
    /\ pc' = "walk"
    /\ UNCHANGED <<cfg_s3_extensions, cfg_gcs_extensions, rootExists, remaining,
                   s3_bucket_name, gcs_bucket_name, s3_file_extensions,
                   gcs_file_extensions, file_extensions, subdir, file, file_dir,
                   file_extension, calls, failedBefore>>

\* the walk is exhausted: upload_files returns None and the cli exits
WalkEnd ==
    /\ pc = "walk"
    /\ ~WalkHasNext
    /\ pc' = "done"
    /\ UNCHANGED <<cfg_s3_extensions, cfg_gcs_extensions, rootExists, remaining,
                   s3_bucket_name, gcs_bucket_name, s3_file_extensions,
                   gcs_file_extensions, file_extensions, subdir, file, file_dir,
                   file_extension, inflight, calls, log, fault, failedBefore>>

Next == cli \/ NextDir \/ NextFile \/ UploadReturn \/ UploadRaise \/ WalkEnd

Spec == Init /\ [][Next]_vars

\* ---- vocabulary of the properties ----
\* the walk has yielded a file: subdir, file and file_extension are set
Yielded == file # <<>>

\* the iteration of file is over
IterationOver == Yielded /\ pc \in {"walk", "done"}

S3Set == Range(s3_file_extensions)
GcsSet == Range(gcs_file_extensions)

CallsTo(backend) == {i \in 1..Len(calls) : calls[i].backend = backend}

HasDot(name) == \E i \in 1..Len(name) : name[i] = "."

\* the characters after the final '.', lower-cased
AfterFinalDot(name) ==
    LET d == CHOOSE i \in 1..Len(name) :
                 name[i] = "." /\ \A j \in (i+1)..Len(name) : name[j] # "."
    IN [i \in 1..(Len(name) - d) |-> LowerChar(name[d + i])]

\* some character other than '.' stands before the final '.'
HasStemBeforeFinalDot(name) ==
    \E i, j \in 1..Len(name) : i < j /\ name[i] # "." /\ name[j] = "."

C2_ExclusiveRouting ==
    Yielded =>
        /\ (file_extension \in S3Set \ GcsSet =>
                CallsTo("s3") # {} /\ CallsTo("gcs") = {})
        /\ (file_extension \in GcsSet \ S3Set =>
                CallsTo("gcs") # {} /\ CallsTo("s3") = {})

C2_Witness ==
    /\ pc = "done"
    /\ file_extension # <<>>
    /\ file_extension \in GcsSet \ S3Set
    /\ S3Set \ GcsSet # {}
    /\ CallsTo("gcs") # {}

\* C3: a yielded file whose extension is in a backend's list causes exactly
\* one upload call, on a backend whose list holds the extension, with the
\* directory joined with the name as local path and the bare name as remote
\* name, and one log line once the call is over; a file whose extension is
\* in neither list causes no call and no log line.
C3_OneUploadPerMatchedFile ==
    Yielded =>
        /\ file_extension \in S3Set \cup GcsSet =>
              /\ Len(calls) = 1
              /\ calls[1].file_path = file_dir \o <<"/">> \o file
              /\ calls[1].file_name = file
              /\ calls[1].backend = "s3" => file_extension \in S3Set
              /\ calls[1].backend = "gcs" => file_extension \in GcsSet
              /\ IterationOver => Len(log) = 1
        /\ file_extension \notin S3Set \cup GcsSet => calls = <<>> /\ log = <<>>

C3_Witness ==
    /\ pc = "done"
    /\ failedBefore
    /\ Len(calls) = 1
    /\ calls[1].file_path = <<"r", "/", "s", "/", "B", ".", "B">>
    /\ calls[1].file_name = <<"B", ".", "B">>
    /\ calls[1].backend = "gcs"

\* C4: a file whose name has no '.' or nothing after its final '.' is never
\* uploaded, whatever the two configured extension lists are.
C4_NoSuffixNoUpload ==
    (Yielded /\ (~HasDot(file) \/ file[Len(file)] = ".")) => calls = <<>>

\* C5: with a root directory that does not exist the run does not complete
\* normally.
C5_MissingRootDoesNotComplete == ~rootExists => pc # "done"

\* C6: a file whose extension equals a configured extension ignoring case is
\* uploaded to the backend that extension is configured for.
C6_CaseInsensitiveConfig ==
    Yielded =>
        /\ ((\E x \in S3Set : Lower(x) = file_extension) => CallsTo("s3") # {})
        /\ ((/\ \E x \in GcsSet : Lower(x) = file_extension
             /\ ~\E x \in S3Set : Lower(x) = file_extension) => CallsTo("gcs") # {})

\* C7: every finished upload attempt has exactly one log line, and the line
\* names the file, the backend used and that backend's own bucket.
C7_LineNamesOwnBucket ==
    /\ Len(log) = Len(calls) - Len(inflight)
    /\ \A i \in 1..Len(log) :
          /\ log[i].file = calls[i].file_name
          /\ log[i].service = (IF calls[i].backend = "s3" THEN S3Name ELSE GcsName)
          /\ log[i].bucket = (IF calls[i].backend = "s3" THEN s3_bucket_name
                                                          ELSE gcs_bucket_name)

\* C8: a file whose extension is in both lists is uploaded to S3 exactly
\* once and never to GCS, also when the S3 upload raised.
C8_FirstMatchWins ==
    (Yielded /\ file_extension \in S3Set \cap GcsSet) =>
        /\ Cardinality(CallsTo("s3")) = 1
        /\ CallsTo("gcs") = {}

C8_Witness ==
    /\ pc = "done"
    /\ fault # "none"
    /\ file_extension = <<"b">>
    /\ file_extension \in S3Set \cap GcsSet
    /\ CallsTo("s3") = {1}

\* C9 as stated: for every name with a '.', the routing extension is the
\* lower-cased text after the final '.', names like '.B' included.
C9_ExtensionIsAfterFinalDot ==
    (Yielded /\ HasDot(file)) => file_extension = AfterFinalDot(file)

\* C9 amended: the routing extension is the lower-cased text after the final
\* '.' for every name in which a character other than '.' stands before the
\* final '.', and it is empty for every other name; the file is uploaded
\* exactly when that extension is in one of the two lists.
C9_ExtensionNeedsStem ==
    Yielded =>
        LET e == IF HasStemBeforeFinalDot(file) THEN AfterFinalDot(file) ELSE <<>>
        IN /\ file_extension = e
           /\ (calls # <<>>) <=> (e \in S3Set \cup GcsSet)

C9_Witness ==
    /\ pc = "done"
    /\ file = <<"B", ".", "B">>
    /\ file_extension = <<"b">>
    /\ Len(calls) = 1

\* C10: at most one upload is in flight, the loop takes the next file only
\* when no upload is in flight, and the line of an upload is logged when it
\* is no longer in flight.
C10_Sequential ==
    /\ Len(inflight) <= 1
    /\ Len(inflight) = Len(calls) - Len(log)
    /\ pc = "walk" => inflight = <<>>
    /\ inflight # <<>> => pc = "uploading"

C10_Witness ==
    /\ pc = "uploading"
    /\ failedBefore
    /\ Len(inflight) = 1
    /\ log = <<>>
====
